---- MODULE Spec2Model ----
(***************************************************************************)
(* Athletes / achievements record service (src/4lab/main.py).              *)
(*                                                                         *)
(* Two SQLite tables reached through one SQLAlchemy session per request.   *)
(* A handler is modelled statement by statement: every SELECT and every    *)
(* write transaction (flush + COMMIT) is one step, because the sync        *)
(* handlers run on a thread pool and the sessions do not hold a            *)
(* transaction between a SELECT and the following commit().                *)
(***************************************************************************)
EXTENDS Integers, FiniteSets, Sequences, TLC

\* ---------------------------------------------------------------- bounds
NumRequests == 2          \* request slots that may be in flight together
MaxAthleteId == 2         \* largest athletes.id the model assigns
MaxAchievementId == 2     \* largest achievements.id the model assigns

\* ------------------------------------------------------ program constants
MaxStrLen == 100
MinStrLen == 1
HTTP_200_OK == 200
HTTP_201_CREATED == 201
HTTP_204_NO_CONTENT == 204
HTTP_404_NOT_FOUND == 404
HTTP_422_UNPROCESSABLE == 422
HTTP_500_SERVER_ERROR == 500

Requests == 1..NumRequests

\* A string is the sequence of its characters.
Str(c, n) == [i \in 1..n |-> c]

\* Values a client may submit.
Names == {Str("a", 1), Str("b", 1), Str("a", 0), Str("a", MaxStrLen + 1)}
Countries == {Str("u", 2), Str("u", 0)}
Sports == {Str("r", 3), Str("r", MaxStrLen + 1)}
Results == {Str("9", 1), Str("9", 0)}
Dates == {20240101}
AthleteIds == 1..(MaxAthleteId + 1)
AchievementIds == 1..(MaxAchievementId + 1)

VARIABLES
    athletes,       \* committed rows of table athletes
    achievements,   \* committed rows of table achievements
    req             \* per request slot: the request in flight and its session

vars == <<athletes, achievements, req>>

\* ------------------------------------------------------------ data shapes
DBAthlete(id, name, country) == [id |-> id, name |-> name, country |-> country]

DBAchievement(id, sport, result, date, athlete_id) ==
    [id |-> id, sport |-> sport, result |-> result, date |-> date,
     athlete_id |-> athlete_id]

\* Field(..., min_length=1, max_length=100)
ValidStr(s) == Len(s) >= MinStrLen /\ Len(s) <= MaxStrLen

AthleteCreate(name, country) == ValidStr(name) /\ ValidStr(country)

AchievementCreate(sport, result) == ValidStr(sport) /\ ValidStr(result)

Max(S) == CHOOSE m \in S : \A x \in S : x <= m

\* Variant: the next id is the row count plus one.
NextIdByCount(rows) == Cardinality(rows) + 1

\* INTEGER PRIMARY KEY without AUTOINCREMENT: SQLite assigns max(rowid) + 1.
NextId(rows) == IF rows = {} THEN 1 ELSE Max({x.id : x \in rows}) + 1

\* db.query(DBAthlete).filter(DBAthlete.id == athlete_id).first()
get_athlete_or_404(athlete_id) == {a \in athletes : a.id = athlete_id}

\* db.query(DBAchievement).filter(DBAchievement.id == achievement_id).first()
get_achievement_or_404(achievement_id) ==
    {x \in achievements : x.id = achievement_id}

\* Variant: the relationship load is not restricted to the parent's rows.
RelationshipUnjoined(athlete_id) == achievements

\* relationship("DBAchievement", back_populates="athlete"): the lazy load of
\* athlete.achievements selects the rows whose athlete_id is the parent's id.
Relationship(athlete_id) == {x \in achievements : x.athlete_id = athlete_id}

\* Variant: the athlete_id filter is never applied.
QueryUnfiltered(filter) == achievements

\* query.filter(DBAchievement.athlete_id == athlete_id); filter is the
\* Optional[int] query parameter, {} for None and {a} for a.
Query(filter) ==
    IF filter = {} THEN achievements
    ELSE {x \in achievements : x.athlete_id \in filter}

\* ---------------------------------------------------------- request slots
NoRequest ==
    [op |-> "none", pc |-> "idle", session |-> "none", arg |-> 0,
     filter |-> {}, row |-> {}, obj |-> 0, loaded |-> {},
     status |-> 0, body |-> {}]

Finished(r) == req[r].pc \in {"idle", "done"}

Init ==
    /\ athletes = {}
    /\ achievements = {}
    /\ req = [r \in Requests |-> NoRequest]

FirstStep(op) ==
    CASE op \in {"get_athletes", "get_achievements"} -> "query"
      [] op = "create_athlete" -> "commit"
      [] OTHER -> "lookup"

NewRequest(op, arg, filter, row) ==
    [NoRequest EXCEPT !.op = op, !.pc = FirstStep(op), !.session = "open",
                      !.arg = arg, !.filter = filter, !.row = row]

\* The requests a client can send whose path, query and body pass validation.
Incoming ==
    {NewRequest("get_athletes", 0, {}, {})}
    \cup {NewRequest("create_athlete", 0, {}, {DBAthlete(0, n, c)}) :
            n \in {x \in Names : ValidStr(x)},
            c \in {x \in Countries : ValidStr(x)}}
    \cup {NewRequest("get_athlete_achievements", a, {}, {}) : a \in AthleteIds}
    \cup {NewRequest("delete_athlete", a, {}, {}) : a \in AthleteIds}
    \cup {NewRequest("get_achievements", 0, f, {}) :
            f \in {{}} \cup {{a} : a \in AthleteIds}}
    \cup {NewRequest("create_achievement", a, {},
                     {DBAchievement(0, s, t, d, a)}) :
            a \in AthleteIds, s \in {x \in Sports : ValidStr(x)},
            t \in {x \in Results : ValidStr(x)}, d \in Dates}
    \cup {NewRequest("delete_achievement", x, {}, {}) : x \in AchievementIds}

\* Bodies of POST /athletes and POST /achievements that fail validation.
Rejected ==
    {<<"create_athlete", n, c>> : n \in Names, c \in Countries}
    \cup {<<"create_achievement", s, t>> : s \in Sports, t \in Results}

Reply(q, pc, status, body) ==
    [q EXCEPT !.pc = pc, !.status = status, !.body = body]

\* get_db up to its yield: SessionLocal() opens the request's session; the
\* request has passed validation and the handler is about to run.
get_db_open(r) ==
    /\ Finished(r)
    /\ \E q \in Incoming : req' = [req EXCEPT ![r] = q]
    /\ UNCHANGED <<athletes, achievements>>

\* A body that violates a Field constraint: the session dependency has
\* been entered, the handler is never called, the reply is 422.
validation_error(r) ==
    /\ Finished(r)
    /\ \E b \in Rejected :
        /\ ~(ValidStr(b[2]) /\ ValidStr(b[3]))
        /\ req' = [req EXCEPT ![r] =
              [NoRequest EXCEPT !.op = b[1], !.pc = "raised",
                                !.session = "open",
                                !.status = HTTP_422_UNPROCESSABLE]]
    /\ UNCHANGED <<athletes, achievements>>

\* Variant: db.close() sits after the yield without try/finally, so a raise
\* in the handler skips it.
get_db_close_no_finally(r) ==
    /\ req[r].pc \in {"returned", "raised"}
    /\ req' = [req EXCEPT ![r] =
          [NoRequest EXCEPT !.pc = "done",
                            !.session = IF req[r].pc = "raised"
                                        THEN "open" ELSE "closed"]]
    /\ UNCHANGED <<athletes, achievements>>

\* get_db after its yield: finally: db.close(), on return and on raise.
\* The reply has been sent; the slot keeps nothing of the request.
get_db_close(r) ==
    /\ req[r].pc \in {"returned", "raised"}
    /\ req' = [req EXCEPT ![r] =
          [NoRequest EXCEPT !.pc = "done", !.session = "closed"]]
    /\ UNCHANGED <<athletes, achievements>>

\* db.commit() fails (database locked, I/O error): the transaction is rolled
\* back, the exception leaves the handler, the reply is 500.
commit_failure(r) ==
    /\ req[r].pc = "commit"
    /\ req' = [req EXCEPT ![r] =
          Reply(req[r], "raised", HTTP_500_SERVER_ERROR, {})]
    /\ UNCHANGED <<athletes, achievements>>

\* ------------------------------------------------------ GET /athletes
get_athletes(r) ==
    /\ req[r].op = "get_athletes" /\ req[r].pc = "query"
    /\ req' = [req EXCEPT ![r] =
          Reply(req[r], "returned", HTTP_200_OK, athletes)]
    /\ UNCHANGED <<athletes, achievements>>

\* ------------------------------------------------------ POST /athletes
\* db.add(db_athlete); db.commit(): INSERT and COMMIT in one write
\* transaction.
create_athlete_commit(r) ==
    /\ req[r].op = "create_athlete" /\ req[r].pc = "commit"
    /\ NextId(athletes) <= MaxAthleteId
    /\ LET id == NextId(athletes)
           new == {[a EXCEPT !.id = id] : a \in req[r].row}
       IN /\ athletes' = athletes \cup new
          /\ req' = [req EXCEPT ![r].pc = "refresh", ![r].obj = id]
    /\ UNCHANGED achievements

\* db.refresh(db_athlete); return db_athlete: SELECT by primary key; refresh
\* raises when the row is gone.
create_athlete_refresh(r) ==
    /\ req[r].op = "create_athlete" /\ req[r].pc = "refresh"
    /\ LET found == get_athlete_or_404(req[r].obj)
       IN req' = [req EXCEPT ![r] =
             IF found = {}
             THEN Reply(req[r], "raised", HTTP_500_SERVER_ERROR, {})
             ELSE Reply(req[r], "returned", HTTP_201_CREATED, found)]
    /\ UNCHANGED <<athletes, achievements>>

\* ------------------------------------ GET /athletes/{athlete_id}/achievements
get_athlete_achievements_lookup(r) ==
    /\ req[r].op = "get_athlete_achievements" /\ req[r].pc = "lookup"
    /\ req' = [req EXCEPT ![r] =
          IF get_athlete_or_404(req[r].arg) = {}
          THEN Reply(req[r], "raised", HTTP_404_NOT_FOUND, {})
          ELSE [req[r] EXCEPT !.pc = "load", !.obj = req[r].arg]]
    /\ UNCHANGED <<athletes, achievements>>

\* return athlete.achievements: lazy load of the relationship
get_athlete_achievements_load(r) ==
    /\ req[r].op = "get_athlete_achievements" /\ req[r].pc = "load"
    /\ req' = [req EXCEPT ![r] =
          Reply(req[r], "returned", HTTP_200_OK, Relationship(req[r].obj))]
    /\ UNCHANGED <<athletes, achievements>>

\* ------------------------------------------------ DELETE /athletes/{athlete_id}
delete_athlete_lookup(r) ==
    /\ req[r].op = "delete_athlete" /\ req[r].pc = "lookup"
    /\ req' = [req EXCEPT ![r] =
          IF get_athlete_or_404(req[r].arg) = {}
          THEN Reply(req[r], "raised", HTTP_404_NOT_FOUND, {})
          ELSE [req[r] EXCEPT !.pc = "load", !.obj = req[r].arg]]
    /\ UNCHANGED <<athletes, achievements>>

\* Variant: the relationship carries no delete cascade, no child is marked.
delete_athlete_no_cascade(r) ==
    /\ req[r].op = "delete_athlete" /\ req[r].pc = "load"
    /\ req' = [req EXCEPT ![r].pc = "commit", ![r].loaded = {}]
    /\ UNCHANGED <<athletes, achievements>>

\* db.delete(athlete): cascade="all, delete" loads athlete.achievements and
\* marks every loaded child for deletion.
delete_athlete_cascade(r) ==
    /\ req[r].op = "delete_athlete" /\ req[r].pc = "load"
    /\ req' = [req EXCEPT ![r].pc = "commit",
                          ![r].loaded = {x.id : x \in Relationship(req[r].obj)}]
    /\ UNCHANGED <<athletes, achievements>>

\* Variant: only the athlete row is deleted, the marked children are kept.
delete_athlete_commit_parent_only(r) ==
    /\ req[r].op = "delete_athlete" /\ req[r].pc = "commit"
    /\ athletes' = {a \in athletes : a.id # req[r].obj}
    /\ req' = [req EXCEPT ![r] =
          Reply(req[r], "returned", HTTP_204_NO_CONTENT, {})]
    /\ UNCHANGED achievements

\* db.commit(): DELETE of each marked child by primary key, DELETE of the
\* athlete by primary key, COMMIT; a DELETE that matches no row only warns.
delete_athlete_commit(r) ==
    /\ req[r].op = "delete_athlete" /\ req[r].pc = "commit"
    /\ achievements' = {x \in achievements : x.id \notin req[r].loaded}
    /\ athletes' = {a \in athletes : a.id # req[r].obj}
    /\ req' = [req EXCEPT ![r] =
          Reply(req[r], "returned", HTTP_204_NO_CONTENT, {})]

\* ------------------------------------------------------ GET /achievements
get_achievements(r) ==
    /\ req[r].op = "get_achievements" /\ req[r].pc = "query"
    /\ req' = [req EXCEPT ![r] =
          Reply(req[r], "returned", HTTP_200_OK, Query(req[r].filter))]
    /\ UNCHANGED <<athletes, achievements>>

\* ------------------------------------------------------ POST /achievements
\* Variant: the athlete is not looked up before the insert.
create_achievement_no_lookup(r) ==
    /\ req[r].op = "create_achievement" /\ req[r].pc = "lookup"
    /\ req' = [req EXCEPT ![r].pc = "commit"]
    /\ UNCHANGED <<athletes, achievements>>

\* get_athlete_or_404(db, achievement.athlete_id)
create_achievement_lookup(r) ==
    /\ req[r].op = "create_achievement" /\ req[r].pc = "lookup"
    /\ req' = [req EXCEPT ![r] =
          IF get_athlete_or_404(req[r].arg) = {}
          THEN Reply(req[r], "raised", HTTP_404_NOT_FOUND, {})
          ELSE [req[r] EXCEPT !.pc = "commit"]]
    /\ UNCHANGED <<athletes, achievements>>

\* db.add(db_achievement); db.commit(): INSERT and COMMIT in one write
\* transaction; the engine never turns PRAGMA foreign_keys on, so the
\* ForeignKey of athlete_id is not checked by SQLite.
create_achievement_commit(r) ==
    /\ req[r].op = "create_achievement" /\ req[r].pc = "commit"
    /\ NextId(achievements) <= MaxAchievementId
    /\ LET id == NextId(achievements)
           new == {[x EXCEPT !.id = id] : x \in req[r].row}
       IN /\ achievements' = achievements \cup new
          /\ req' = [req EXCEPT ![r].pc = "refresh", ![r].obj = id]
    /\ UNCHANGED athletes

\* db.refresh(db_achievement); return db_achievement
create_achievement_refresh(r) ==
    /\ req[r].op = "create_achievement" /\ req[r].pc = "refresh"
    /\ LET found == get_achievement_or_404(req[r].obj)
       IN req' = [req EXCEPT ![r] =
             IF found = {}
             THEN Reply(req[r], "raised", HTTP_500_SERVER_ERROR, {})
             ELSE Reply(req[r], "returned", HTTP_201_CREATED, found)]
    /\ UNCHANGED <<athletes, achievements>>

\* -------------------------------------- DELETE /achievements/{achievement_id}
\* Variant: a missing achievement is not reported, the delete goes on.
delete_achievement_lookup_unchecked(r) ==
    /\ req[r].op = "delete_achievement" /\ req[r].pc = "lookup"
    /\ req' = [req EXCEPT ![r].pc = "commit", ![r].obj = req[r].arg]
    /\ UNCHANGED <<athletes, achievements>>

\* achievement = get_achievement_or_404(db, achievement_id)
delete_achievement_lookup(r) ==
    /\ req[r].op = "delete_achievement" /\ req[r].pc = "lookup"
    /\ req' = [req EXCEPT ![r] =
          IF get_achievement_or_404(req[r].arg) = {}
          THEN Reply(req[r], "raised", HTTP_404_NOT_FOUND, {})
          ELSE [req[r] EXCEPT !.pc = "commit", !.obj = req[r].arg]]
    /\ UNCHANGED <<athletes, achievements>>

\* Variant: the DELETE selects by the achievement's athlete_id.
delete_achievement_commit_by_owner(r) ==
    /\ req[r].op = "delete_achievement" /\ req[r].pc = "commit"
    /\ achievements' =
         {x \in achievements :
            x.athlete_id \notin
              {y.athlete_id : y \in get_achievement_or_404(req[r].obj)}}
    /\ req' = [req EXCEPT ![r] =
          Reply(req[r], "returned", HTTP_204_NO_CONTENT, {})]
    /\ UNCHANGED athletes

\* db.delete(achievement); db.commit(): DELETE by primary key, COMMIT
delete_achievement_commit(r) ==
    /\ req[r].op = "delete_achievement" /\ req[r].pc = "commit"
    /\ achievements' = {x \in achievements : x.id # req[r].obj}
    /\ req' = [req EXCEPT ![r] =
          Reply(req[r], "returned", HTTP_204_NO_CONTENT, {})]
    /\ UNCHANGED athletes

\* ------------------------------------------------------- specifications
Handler(r) ==
    \/ get_athletes(r)
    \/ create_athlete_commit(r)
    \/ create_athlete_refresh(r)
    \/ get_athlete_achievements_lookup(r)
    \/ get_athlete_achievements_load(r)
    \/ delete_athlete_lookup(r)
    \/ delete_athlete_cascade(r)
    \/ delete_athlete_commit(r)
    \/ get_achievements(r)
    \/ create_achievement_lookup(r)
    \/ create_achievement_commit(r)
    \/ create_achievement_refresh(r)
    \/ delete_achievement_lookup(r)
    \/ delete_achievement_commit(r)
    \/ commit_failure(r)
    \/ get_db_close(r)

\* Requests are served by a thread pool: any request may start at any time
\* and the statements of the requests in flight interleave.
Next ==
    \E r \in Requests :
        \/ get_db_open(r)
        \/ validation_error(r)
        \/ Handler(r)

Spec == Init /\ [][Next]_vars

\* One request at a time: a request starts only when no other is in flight.
Quiescent == \A r \in Requests : Finished(r)

NextSerial ==
    \E r \in Requests :
        \/ Quiescent /\ get_db_open(r)
        \/ Quiescent /\ validation_error(r)
        \/ Handler(r)

SpecSerial == Init /\ [][NextSerial]_vars

\* ------------------------------------------------------------ properties
LiveAthletes == {a.id : a \in athletes}
LiveAchievements == {x.id : x \in achievements}
Owned(a) == {x \in achievements : x.athlete_id = a}

\* Slot r takes a step of the handler named op.
Steps(r, op) == req[r].op = op /\ req'[r] # req[r]

\* C1: in every state reached by requests served one after the other, every
\* persisted achievement's athlete_id is the id of a persisted athlete.
C1_EveryAchievementHasLiveAthlete ==
    \A x \in achievements : \E a \in athletes : a.id = x.athlete_id

\* An athlete that owned achievements has just been deleted while another
\* athlete's achievement stays persisted.
C1_Witness ==
    \E r \in Requests :
        /\ req[r].op = "delete_athlete" /\ req[r].pc = "returned"
        /\ req[r].loaded # {}
        /\ achievements # {}

\* C2: a delete_athlete of an existing athlete a goes past the lookup, and
\* when it replies 204 it has removed exactly the row of a and exactly the
\* achievements a owned: no achievement with athlete_id = a is listed
\* afterwards, with or without the filter, and every other athlete and every
\* achievement of another athlete is persisted unchanged.
C2_DeleteAthleteCascades ==
    [][\A r \in Requests :
         /\ ( /\ Steps(r, "delete_athlete") /\ req[r].pc = "lookup"
              /\ req[r].arg \in LiveAthletes )
            => req'[r].pc = "load"
         /\ ( /\ Steps(r, "delete_athlete")
              /\ req'[r].status = HTTP_204_NO_CONTENT )
            => LET a == req[r].arg
               IN /\ a \in LiveAthletes
                  /\ athletes' = {b \in athletes : b.id # a}
                  /\ achievements' = achievements \ Owned(a)
                  /\ \A x \in achievements' : x.athlete_id # a
                  /\ \A x \in Owned(a) : x.id \notin {y.id : y \in achievements'}
      ]_vars

\* delete_athlete has replied 204 after deleting two achievements of its
\* athlete while another athlete is still persisted.
C2_Witness ==
    \E r \in Requests :
        /\ req[r].op = "delete_athlete" /\ req[r].pc = "returned"
        /\ req[r].status = HTTP_204_NO_CONTENT
        /\ Cardinality(req[r].loaded) = 2
        /\ athletes # {} /\ achievements = {}

\* C3: create_achievement whose athlete_id is not the id of a persisted
\* athlete replies 404 and changes neither table.
C3_CreateAchievementUnknownAthlete ==
    [][\A r \in Requests :
         ( /\ Steps(r, "create_achievement") /\ req[r].pc = "lookup"
           /\ req[r].arg \notin LiveAthletes )
         => /\ req'[r].pc = "raised"
            /\ req'[r].status = HTTP_404_NOT_FOUND
            /\ athletes' = athletes /\ achievements' = achievements
      ]_vars

\* create_achievement has replied 404 for an athlete id that was assigned
\* earlier (a larger id is persisted) and has been deleted since.
C3_Witness ==
    \E r \in Requests :
        /\ req[r].op = "create_achievement" /\ req[r].pc = "raised"
        /\ req[r].status = HTTP_404_NOT_FOUND
        /\ req[r].arg \notin LiveAthletes
        /\ \E a \in athletes : a.id > req[r].arg

\* C4: delete_athlete of an id that is no persisted athlete and
\* delete_achievement of an id that is no persisted achievement reply 404
\* and change neither table.
C4_DeleteUnknownIsNotFound ==
    [][\A r \in Requests :
         /\ ( /\ Steps(r, "delete_athlete") /\ req[r].pc = "lookup"
              /\ req[r].arg \notin LiveAthletes )
            => /\ req'[r].pc = "raised"
               /\ req'[r].status = HTTP_404_NOT_FOUND
               /\ athletes' = athletes /\ achievements' = achievements
         /\ ( /\ Steps(r, "delete_achievement") /\ req[r].pc = "lookup"
              /\ req[r].arg \notin LiveAchievements )
            => /\ req'[r].pc = "raised"
               /\ req'[r].status = HTTP_404_NOT_FOUND
               /\ athletes' = athletes /\ achievements' = achievements
      ]_vars

\* delete_achievement has replied 404 for an achievement id that was
\* assigned earlier (a larger id is persisted) and has been removed since.
C4_Witness ==
    \E r \in Requests :
        /\ req[r].op = "delete_achievement" /\ req[r].pc = "raised"
        /\ req[r].status = HTTP_404_NOT_FOUND
        /\ \E x \in achievements : x.id > req[r].arg

\* C5: no two persisted athletes share an id and no two persisted
\* achievements share an id; the insert of create_athlete keeps every row
\* that was persisted; when create_athlete replies 201 with identifier i the
\* table holds exactly one row with id i, it carries the submitted name and
\* country and it is the row replied; get_athletes replies the table.
C5_CreatedAthleteListedOnce ==
    /\ [](/\ \A a, b \in athletes : a.id = b.id => a = b
          /\ \A x, y \in achievements : x.id = y.id => x = y)
    /\ [][\A r \in Requests :
            /\ ( /\ Steps(r, "create_athlete") /\ req[r].pc = "commit"
                 /\ req'[r].pc = "refresh" )
               => /\ athletes \subseteq athletes'
                  /\ achievements' = achievements
            /\ ( /\ Steps(r, "create_athlete")
                 /\ req'[r].status = HTTP_201_CREATED )
               => \E row \in req[r].row :
                    LET created == DBAthlete(req[r].obj, row.name, row.country)
                    IN /\ {a \in athletes' : a.id = req[r].obj} = {created}
                       /\ req'[r].body = {created}
            /\ ( /\ Steps(r, "get_athletes")
                 /\ req'[r].pc = "returned" )
               => /\ req'[r].body = athletes
                  /\ req'[r].status = HTTP_200_OK
         ]_vars

\* create_athlete has replied 201 for a second athlete whose name differs
\* from the name of the athlete persisted before it.
C5_Witness ==
    \E r \in Requests :
        /\ req[r].op = "create_athlete" /\ req[r].pc = "returned"
        /\ req[r].status = HTTP_201_CREATED
        /\ req[r].body \subseteq athletes
        /\ \E a \in athletes, b \in req[r].body : a.id # b.id /\ a.name # b.name

\* C6: get_achievements replies 200 with exactly the persisted achievements
\* whose athlete_id is the filter, with every persisted achievement when no
\* filter is given and with the empty list when the filter is no persisted
\* athlete, and it changes neither table.
C6_GetAchievementsFilters ==
    [][\A r \in Requests :
         ( Steps(r, "get_achievements") /\ req[r].pc = "query" )
         => /\ req'[r].pc = "returned"
            /\ req'[r].status = HTTP_200_OK
            /\ req[r].filter = {} => req'[r].body = achievements
            /\ \A a \in req[r].filter :
                 /\ req'[r].body = {x \in achievements : x.athlete_id = a}
                 /\ a \notin LiveAthletes => req'[r].body = {}
            /\ athletes' = athletes /\ achievements' = achievements
      ]_vars

\* get_achievements has replied some but not all persisted achievements for
\* the athlete it was filtered by.
C6_Witness ==
    \E r \in Requests :
        /\ req[r].op = "get_achievements" /\ req[r].pc = "returned"
        /\ req[r].filter # {}
        /\ req[r].body # {} /\ req[r].body # achievements
        /\ req[r].body \subseteq achievements

\* C7: get_athlete_achievements replies 404 for an id that is no persisted
\* athlete; otherwise it replies 200 with exactly the persisted achievements
\* with that athlete_id, the set get_achievements replies for that filter in
\* the same state; right after the insert of create_athlete no persisted
\* achievement has the new athlete's id.
C7_AthleteAchievementsAgreeWithFilter ==
    [][\A r \in Requests :
         /\ ( /\ Steps(r, "get_athlete_achievements") /\ req[r].pc = "lookup"
              /\ req[r].arg \notin LiveAthletes )
            => /\ req'[r].pc = "raised"
               /\ req'[r].status = HTTP_404_NOT_FOUND
         /\ ( /\ Steps(r, "get_athlete_achievements") /\ req[r].pc = "lookup"
              /\ req[r].arg \in LiveAthletes )
            => req'[r].pc = "load"
         /\ ( /\ Steps(r, "get_athlete_achievements") /\ req[r].pc = "load" )
            => /\ req'[r].pc = "returned"
               /\ req'[r].status = HTTP_200_OK
               /\ req[r].arg \in LiveAthletes
               /\ req'[r].body =
                    {x \in achievements : x.athlete_id = req[r].arg}
               /\ req'[r].body = Query({req[r].arg})
         /\ ( /\ Steps(r, "create_athlete") /\ req'[r].pc = "refresh" )
            => \A x \in achievements' : x.athlete_id # req'[r].obj
         /\ Steps(r, "get_athlete_achievements")
            => athletes' = athletes /\ achievements' = achievements
      ]_vars

\* get_athlete_achievements has replied some but not all persisted
\* achievements for its athlete.
C7_Witness ==
    \E r \in Requests :
        /\ req[r].op = "get_athlete_achievements" /\ req[r].pc = "returned"
        /\ req[r].body # {} /\ req[r].body # achievements
        /\ req[r].body \subseteq achievements

\* C8: a request in flight holds exactly the session opened at its start, a
\* finished request holds no open session, and the step that ends a request,
\* after a return or after a raise, leaves its session closed; when no
\* request is in flight no session is open.
C8_SessionClosedOnEveryExit ==
    /\ \A r \in Requests :
        /\ Finished(r) => req[r].session # "open"
        /\ ~Finished(r) => req[r].session = "open"
        /\ req[r].pc = "done" => req[r].session = "closed"
    /\ Quiescent => \A r \in Requests : req[r].session # "open"

\* One request has ended with its session closed while another, whose
\* commit failed, still holds its own.
C8_Witness ==
    \E r, q \in Requests :
        /\ req[r].pc = "done" /\ req[r].session = "closed"
        /\ req[q].pc = "raised" /\ req[q].status = HTTP_500_SERVER_ERROR
        /\ req[q].session = "open"

\* C9: when delete_achievement replies 204 it has removed exactly the one
\* achievement with the given id; the athletes table and every other
\* achievement are unchanged.
C9_DeleteAchievementRemovesOne ==
    [][\A r \in Requests :
         /\ ( /\ Steps(r, "delete_achievement") /\ req[r].pc = "lookup"
              /\ req[r].arg \in LiveAchievements )
            => req'[r].pc = "commit"
         /\ ( /\ Steps(r, "delete_achievement")
              /\ req'[r].status = HTTP_204_NO_CONTENT )
            => /\ achievements' = {x \in achievements : x.id # req[r].arg}
               /\ Cardinality(achievements') = Cardinality(achievements) - 1
               /\ athletes' = athletes
      ]_vars

\* delete_achievement has replied 204 and another achievement of the same
\* athlete is still persisted.
C9_Witness ==
    \E r \in Requests :
        /\ req[r].op = "delete_achievement" /\ req[r].pc = "returned"
        /\ req[r].status = HTTP_204_NO_CONTENT
        /\ Cardinality(athletes) = 1
        /\ achievements # {}

\* C10: requests whose statements interleave leave the tables as some serial
\* execution would: once no request is in flight, no persisted achievement
\* has the athlete_id of an athlete that is not persisted.
C10_InterleavingLeavesNoOrphan ==
    Quiescent => \A x \in achievements : x.athlete_id \in LiveAthletes
====
